---- MODULE Spec2Model ----
(***************************************************************************)
(* A model of chainerx/routines/linalg.cc: the entry points Dot, Eigh and  *)
(* Eigvalsh, the gradient rules Dot and Eigh register, and the closures    *)
(* those rules run in the backward pass.                                   *)
(*                                                                         *)
(* An array is a record [shape, dtype, data]: data holds the elements in   *)
(* logical row-major order, so Reshape keeps data and Transpose permutes   *)
(* it.  Sequences are 1-based: axis i of the source is position i+1 here.  *)
(***************************************************************************)
EXTENDS Integers, Sequences, FiniteSets

\* Largest extent of an axis of an input array.
MaxDim == 2
\* Largest rank of the left operand of Dot and of the input of Eigh/Eigvalsh.
MaxRankA == 2
\* Largest rank of the right operand of Dot.
MaxRankB == 3

Dtypes == {"float32", "float64"}
NoDtype == "nullopt"
NoArray == [shape |-> <<>>, dtype |-> "none", data |-> <<>>]

VARIABLES
    pc,                  \* position of the running entry point
    op,                  \* "Dot", "Eigh", "Eigvalsh" or "none"
    a, b,                \* the operands of the call
    out_dtype,           \* Dot's optional out_dtype
    uplo,                \* the triangle selector of Eigh/Eigvalsh
    backprop_mode_stack, \* the thread-local stack of backprop modes
    entry_stack,         \* backprop_mode_stack when the entry point was called
    out_shape,           \* Dot's local out_shape
    a_matrix, b_matrix,  \* Dot's locals a_matrix and b_matrix
    out_matrix,          \* Dot's local out_matrix
    w, v,                \* the locals w and v of Eigh/Eigvalsh
    kernel_calls,        \* kernel invocations of this call, with the mode each ran in
    bb,                  \* the BackwardBuilder of this call
    result,              \* what the entry point returned or threw
    output_grad,         \* the output gradients the last closure run was given
    input_grad,          \* per target, the gradient its closure last computed
    dereferenced,        \* the output gradients the closures dereferenced
    prev                 \* the previous completed eigenvalue call

vars == <<pc, op, a, b, out_dtype, uplo, backprop_mode_stack, entry_stack,
          out_shape, a_matrix, b_matrix, out_matrix, w, v, kernel_calls, bb,
          result, output_grad, input_grad, dereferenced, prev>>

-----------------------------------------------------------------------------
(* Shapes and arrays: chainerx/shape.h, chainerx/array.h and the creation  *)
(* and manipulation routines linalg.cc calls.                              *)

RECURSIVE Prod(_)
Prod(s) == IF s = <<>> THEN 1 ELSE Head(s) * Prod(Tail(s))

Ndim(x) == Len(x.shape)
GetTotalSize(x) == Prod(x.shape)

Front(s) == SubSeq(s, 1, Len(s) - 1)
Back(s) == s[Len(s)]

\* The multi-index (0-based entries) of flat row-major position i (0-based).
Unravel(i, shape) ==
    [d \in 1..Len(shape) |->
        (i \div Prod(SubSeq(shape, d + 1, Len(shape)))) % shape[d]]

RECURSIVE RavelFrom(_, _, _)
RavelFrom(idx, shape, d) ==
    IF d > Len(shape) THEN 0
    ELSE idx[d] * Prod(SubSeq(shape, d + 1, Len(shape))) + RavelFrom(idx, shape, d + 1)

\* The flat row-major position (0-based) of a multi-index.
Ravel(idx, shape) == RavelFrom(idx, shape, 1)

\* The shape of Array::Transpose(axes): axis i of the result is axis
\* axes[i] of the array.
TransposeShape(shape, axes) == [i \in 1..Len(shape) |-> shape[axes[i]]]

\* Array::Transpose(axes), with the elements moved accordingly.
Transpose(x, axes) ==
    LET newshape == TransposeShape(x.shape, axes)
        inv(j) == CHOOSE i \in 1..Ndim(x) : axes[i] = j
        src(o) == LET oi == Unravel(o, newshape)
                  IN  Ravel([j \in 1..Ndim(x) |-> oi[inv(j)]], x.shape)
    IN  [shape |-> newshape,
         dtype |-> x.dtype,
         data  |-> [p \in 1..Prod(newshape) |-> x.data[src(p - 1) + 1]]]

\* The axes of Array::Transpose(): all axes reversed.
ReversedAxes(n) == [i \in 1..n |-> n + 1 - i]

\* Array::Transpose().
TransposeAll(x) == Transpose(x, ReversedAxes(Ndim(x)))

\* Array::Reshape(newshape) with every extent given.
Reshape(x, newshape) == [shape |-> newshape, dtype |-> x.dtype, data |-> x.data]

\* The shape of Array::Reshape({-1, cols}): the first extent is inferred from
\* the total size.  Beside cols = 0 every extent fits an empty array; 0
\* stands for it (linalg.cc reads only the other extent of such a result).
InferRowsShape(shape, cols) ==
    <<IF cols = 0 THEN 0 ELSE Prod(shape) \div cols, cols>>

\* Array::Reshape({-1, cols}).
ReshapeInferRows(x, cols) == Reshape(x, InferRowsShape(x.shape, cols))

Full(shape, dtype, value) ==
    [shape |-> shape, dtype |-> dtype, data |-> [i \in 1..Prod(shape) |-> value]]

Zeros(shape, dtype) == Full(shape, dtype, 0)

\* Empty(shape, dtype): storage whose contents are unspecified until a kernel
\* writes them; no element is readable before that.
Empty(shape, dtype) == [shape |-> shape, dtype |-> dtype, data |-> <<>>]

\* An input array holding start, start+1, ... in row-major order.
Arange(start, shape, dtype) ==
    [shape |-> shape, dtype |-> dtype,
     data |-> [i \in 1..Prod(shape) |-> start + i - 1]]

\* ResultType(a, b): dtype promotion, here the wider of the two floats.
ResultType(x, y) ==
    IF "float64" \in {x.dtype, y.dtype} THEN "float64" ELSE "float32"

\* operator*(a, b) when one operand has rank 0: the scalar is broadcast.
Multiply(x, y) ==
    LET big == IF Ndim(x) = 0 THEN y ELSE x
        sx(i) == IF Ndim(x) = 0 THEN x.data[1] ELSE x.data[i]
        sy(i) == IF Ndim(y) = 0 THEN y.data[1] ELSE y.data[i]
    IN  [shape |-> big.shape,
         dtype |-> ResultType(x, y),
         data  |-> [i \in 1..Prod(big.shape) |-> sx(i) * sy(i)]]

RECURSIVE InnerSum(_, _, _, _, _, _)
InnerSum(x, y, i, j, n, l) ==
    IF l = 0 THEN 0
    ELSE x.data[(i - 1) * x.shape[2] + l] * y.data[(l - 1) * n + j]
         + InnerSum(x, y, i, j, n, l - 1)

\* DotKernel: out := x . y for x of shape (m, k) and y of shape (k, n).
DotKernel(x, y, out) ==
    LET m == x.shape[1]
        n == y.shape[2]
    IN  [shape |-> out.shape,
         dtype |-> out.dtype,
         data  |-> [p \in 1..(m * n) |->
                       InnerSum(x, y, ((p - 1) \div n) + 1, ((p - 1) % n) + 1, n,
                                x.shape[2])]]

-----------------------------------------------------------------------------
(* Dot: linalg.cc lines 32-104, first as the values its statements compute. *)

\* Line 33: the dtype of the result.
DotRealOutDtype(x, y, od) == IF od # NoDtype THEN od ELSE ResultType(x, y)

\* DotTransposeAxes with the swap of the last two axes forgotten.
DotTransposeAxesIdentity(n) == [i \in 1..n |-> i]

\* Lines 45-50: b_transpose_axes, the identity with the last two axes swapped.
DotTransposeAxes(n) ==
    [i \in 1..n |-> IF i = n - 1 THEN n ELSE IF i = n THEN n - 1 ELSE i]

\* Lines 44-61: modified_b.
DotModifiedB(y) ==
    IF Ndim(y) > 2
    THEN LET t == Transpose(y, DotTransposeAxes(Ndim(y)))
         IN  TransposeAll(ReshapeInferRows(t, Back(t.shape)))
    ELSE y

\* Lines 53-61: modified_b.shape().
DotModifiedBShape(shape) ==
    IF Len(shape) > 2
    THEN LET t == TransposeShape(shape, DotTransposeAxes(Len(shape)))
         IN  TransposeShape(InferRowsShape(t, Back(t)), ReversedAxes(2))
    ELSE shape

\* Lines 41-61: out_shape.
DotOutShape(x, y) ==
    Front(x.shape) \o
        (IF Ndim(y) > 2
         THEN Front(TransposeShape(y.shape, DotTransposeAxes(Ndim(y))))
         ELSE Tail(y.shape))

\* Line 63: k, the extent of a's last axis.
DotK(x) == x.shape[Ndim(x)]

\* DotMismatchCond comparing k with b's first axis whatever b's rank.
DotMismatchCondFirstAxis(x, y) == y.shape[1] # DotK(x)

\* Line 64: the contracted extents differ.
DotMismatchCond(x, y) == DotModifiedBShape(y.shape)[1] # DotK(x)

\* Lines 72 and 74: a_matrix.
DotAMatrix(x) == Reshape(x, <<GetTotalSize(x) \div DotK(x), DotK(x)>>)

\* Lines 73 and 75: b_matrix.
DotBMatrix(x, y) ==
    Reshape(DotModifiedB(y), <<DotK(x), GetTotalSize(y) \div DotK(x)>>)

\* Line 78: out_matrix as allocated.
DotOutMatrix(x, y, od) ==
    Empty(<<GetTotalSize(x) \div DotK(x), GetTotalSize(y) \div DotK(x)>>,
          DotRealOutDtype(x, y, od))

\* DotScalarValue with the left operand in both places.
DotScalarValueSquared(x, y, od) == Multiply(x, x)

\* Line 36: what the rank-0 path returns.
DotScalarValue(x, y, od) == Multiply(x, y)

\* DotZeroValue allocating the result without filling it.
DotZeroValueEmpty(x, y, od) == Empty(DotOutShape(x, y), DotRealOutDtype(x, y, od))

\* Lines 67-69: what the zero-contraction path returns.
DotZeroValue(x, y, od) == Zeros(DotOutShape(x, y), DotRealOutDtype(x, y, od))

\* Lines 32-104 as one call: the value Dot returns to a caller that runs it
\* to completion (the gradient closures call Dot this way).
DotCall(x, y, od) ==
    IF 0 \in {Ndim(x), Ndim(y)}
    THEN [status |-> "ok", value |-> DotScalarValue(x, y, od)]
    ELSE IF DotMismatchCond(x, y)
    THEN [status |-> "DimensionError", value |-> NoArray]
    ELSE IF DotK(x) = 0
    THEN [status |-> "ok", value |-> DotZeroValue(x, y, od)]
    ELSE [status |-> "ok",
          value |-> Reshape(DotKernel(DotAMatrix(x), DotBMatrix(x, y),
                                      DotOutMatrix(x, y, od)),
                            DotOutShape(x, y))]

-----------------------------------------------------------------------------
(* The state of one call.                                                   *)

NoBuilder ==
    [name |-> "none", created |-> 0, inputs |-> <<>>, outputs |-> <<>>,
     requested |-> <<>>, defined |-> {}, retained |-> {}, finalized |-> 0]

NoResult == [status |-> "none", value |-> NoArray, value2 |-> NoArray]
NoGrads == [t \in {0, 1} |-> NoArray]
NoPrev == [op |-> "none", a |-> NoArray, uplo |-> "none", w |-> NoArray]

\* The backprop mode in force: the top of the stack, recording when it is empty.
IsBackpropRequired ==
    IF backprop_mode_stack = <<>> THEN TRUE
    ELSE backprop_mode_stack[Len(backprop_mode_stack)]

\* NoBackpropModeScope scope{}: the constructor pushes "no backprop".
ScopeEnter == Append(backprop_mode_stack, FALSE)
\* ~NoBackpropModeScope: the destructor pops what the constructor pushed.
ScopeExit == Front(backprop_mode_stack)

\* CallKernel<K>: the call is counted with the mode it ran under.
KernelCalled(name) ==
    Append(kernel_calls, [kernel |-> name, recording |-> IsBackpropRequired])

locals == <<out_shape, a_matrix, b_matrix, out_matrix, w, v>>
args == <<op, a, b, out_dtype, uplo, entry_stack>>
grads == <<output_grad, input_grad, dereferenced>>

Init ==
    /\ pc = "idle"
    /\ op = "none"
    /\ a = NoArray
    /\ b = NoArray
    /\ out_dtype = NoDtype
    /\ uplo = "none"
    /\ backprop_mode_stack = <<>>
    /\ entry_stack = <<>>
    /\ out_shape = <<>>
    /\ a_matrix = NoArray
    /\ b_matrix = NoArray
    /\ out_matrix = NoArray
    /\ w = NoArray
    /\ v = NoArray
    /\ kernel_calls = <<>>
    /\ bb = NoBuilder
    /\ result = NoResult
    /\ output_grad = <<>>
    /\ input_grad = NoGrads
    /\ dereferenced = {}
    /\ prev = NoPrev

ShapesUpTo(r) == UNION {[1..n -> 0..MaxDim] : n \in 0..r}

\* The modes a caller can be in: recording, or inside its own no-backprop scope.
EntryStacks == {<<>>, <<FALSE>>}

-----------------------------------------------------------------------------
(* Dot, statement by statement.                                             *)

\* A caller invokes Dot(a, b, out_dtype).
CallDot ==
    /\ pc = "idle"
    /\ prev = NoPrev
    /\ \E sa \in ShapesUpTo(MaxRankA), sb \in ShapesUpTo(MaxRankB),
          da \in Dtypes, db \in Dtypes, od \in Dtypes \cup {NoDtype},
          st \in EntryStacks :
          /\ a' = Arange(1, sa, da)
          /\ b' = Arange(5, sb, db)
          /\ out_dtype' = od
          /\ backprop_mode_stack' = st
          /\ entry_stack' = st
    /\ op' = "Dot"
    /\ pc' = "Dot"
    /\ UNCHANGED <<uplo, locals, kernel_calls, bb, result, grads, prev>>

Finish(status, value, value2) ==
    /\ result' = [status |-> status, value |-> value, value2 |-> value2]
    /\ pc' = "done"

\* Lines 33-37: an operand of rank 0.
DotScalar ==
    /\ pc = "Dot"
    /\ 0 \in {Ndim(a), Ndim(b)}
    /\ Finish("ok", DotScalarValue(a, b, out_dtype), NoArray)
    /\ UNCHANGED <<args, backprop_mode_stack, locals, kernel_calls, bb, grads, prev>>

\* Lines 39-66: the contracted extents differ.
DotMismatch ==
    /\ pc = "Dot"
    /\ 0 \notin {Ndim(a), Ndim(b)}
    /\ DotMismatchCond(a, b)
    /\ Finish("DimensionError", NoArray, NoArray)
    /\ UNCHANGED <<args, backprop_mode_stack, locals, kernel_calls, bb, grads, prev>>

\* Lines 39-69: the contracted extent is zero.
DotZero ==
    /\ pc = "Dot"
    /\ 0 \notin {Ndim(a), Ndim(b)}
    /\ ~DotMismatchCond(a, b)
    /\ DotK(a) = 0
    /\ Finish("ok", DotZeroValue(a, b, out_dtype), NoArray)
    /\ UNCHANGED <<args, backprop_mode_stack, locals, kernel_calls, bb, grads, prev>>

\* Lines 39-78: both operands are made matrices and out_matrix is allocated.
DotReduce ==
    /\ pc = "Dot"
    /\ 0 \notin {Ndim(a), Ndim(b)}
    /\ ~DotMismatchCond(a, b)
    /\ DotK(a) # 0
    /\ out_shape' = DotOutShape(a, b)
    /\ a_matrix' = DotAMatrix(a)
    /\ b_matrix' = DotBMatrix(a, b)
    /\ out_matrix' = DotOutMatrix(a, b, out_dtype)
    /\ pc' = "Dot_scope"
    /\ UNCHANGED <<args, backprop_mode_stack, w, v, kernel_calls, bb, result, grads, prev>>

\* DotScopeEnter with the scope object left out.
DotScopeEnterMissing ==
    /\ pc = "Dot_scope"
    /\ pc' = "Dot_kernel"
    /\ UNCHANGED <<args, backprop_mode_stack, locals, kernel_calls, bb, result,
                   grads, prev>>

\* Line 80: NoBackpropModeScope scope{}.
DotScopeEnter ==
    /\ pc = "Dot_scope"
    /\ backprop_mode_stack' = ScopeEnter
    /\ pc' = "Dot_kernel"
    /\ UNCHANGED <<args, locals, kernel_calls, bb, result, grads, prev>>

\* Line 81: CallKernel<DotKernel> returns.
DotCallKernel ==
    /\ pc = "Dot_kernel"
    /\ kernel_calls' = KernelCalled("DotKernel")
    /\ out_matrix' = DotKernel(a_matrix, b_matrix, out_matrix)
    /\ pc' = "Dot_scope_end"
    /\ UNCHANGED <<args, backprop_mode_stack, out_shape, a_matrix, b_matrix, w, v,
                   bb, result, grads, prev>>

\* Line 81: CallKernel<DotKernel> throws.
DotKernelThrows ==
    /\ pc = "Dot_kernel"
    /\ kernel_calls' = KernelCalled("DotKernel")
    /\ pc' = "Dot_unwind"
    /\ UNCHANGED <<args, backprop_mode_stack, locals, bb, result, grads, prev>>

\* Line 82 during unwinding: the scope is destroyed and the exception leaves Dot.
DotUnwind ==
    /\ pc = "Dot_unwind"
    /\ backprop_mode_stack' = ScopeExit
    /\ Finish("KernelError", NoArray, NoArray)
    /\ UNCHANGED <<args, locals, kernel_calls, bb, grads, prev>>

\* Line 82: the scope ends.
DotScopeExit ==
    /\ pc = "Dot_scope_end"
    /\ backprop_mode_stack' = ScopeExit
    /\ pc' = "Dot_bb"
    /\ UNCHANGED <<args, locals, kernel_calls, bb, result, grads, prev>>

\* Line 85: BackwardBuilder bb{"dot", {a_matrix, b_matrix}, out_matrix}.
DotBuilder ==
    /\ pc = "Dot_bb"
    /\ bb' = [NoBuilder EXCEPT !.name = "dot", !.created = 1,
                               !.inputs = <<"a_matrix", "b_matrix">>,
                               !.outputs = <<"out_matrix">>]
    /\ pc' = "Dot_target0"
    /\ UNCHANGED <<args, backprop_mode_stack, locals, kernel_calls, result, grads, prev>>

\* bb.CreateTarget(i): empty when input i is not differentiable in the current
\* context, which it never is while backprop is off.
CreateTarget == IF IsBackpropRequired THEN BOOLEAN ELSE {FALSE}

\* if (Target bt = bb.CreateTarget(target)) bt.Define([tok = bb.Retain...]...).
DefineTarget(target, nonempty, tokens) ==
    [bb EXCEPT !.requested = Append(@, target),
               !.defined = IF nonempty THEN @ \cup {target} ELSE @,
               !.retained = IF nonempty THEN @ \cup tokens ELSE @]

\* DotTarget0 with a closure that retains both inputs.
DotTarget0RetainsBoth ==
    /\ pc = "Dot_target0"
    /\ \E nonempty \in CreateTarget :
          bb' = DefineTarget(0, nonempty, {<<0, "input", 0>>, <<0, "input", 1>>})
    /\ pc' = "Dot_target1"
    /\ UNCHANGED <<args, backprop_mode_stack, locals, kernel_calls, result, grads, prev>>

\* Lines 86-92: the target of input 0; its closure retains input 1.
DotTarget0 ==
    /\ pc = "Dot_target0"
    /\ \E nonempty \in CreateTarget :
          bb' = DefineTarget(0, nonempty, {<<0, "input", 1>>})
    /\ pc' = "Dot_target1"
    /\ UNCHANGED <<args, backprop_mode_stack, locals, kernel_calls, result, grads, prev>>

\* Lines 93-99: the target of input 1; its closure retains input 0.
DotTarget1 ==
    /\ pc = "Dot_target1"
    /\ \E nonempty \in CreateTarget :
          bb' = DefineTarget(1, nonempty, {<<1, "input", 0>>})
    /\ pc' = "Dot_finalize"
    /\ UNCHANGED <<args, backprop_mode_stack, locals, kernel_calls, result, grads, prev>>

\* Line 100: bb.Finalize().
DotFinalize ==
    /\ pc = "Dot_finalize"
    /\ bb' = [bb EXCEPT !.finalized = @ + 1]
    /\ pc' = "Dot_return"
    /\ UNCHANGED <<args, backprop_mode_stack, locals, kernel_calls, result, grads, prev>>

\* Line 103: return out_matrix.Reshape(out_shape).
DotReturn ==
    /\ pc = "Dot_return"
    /\ Finish("ok", Reshape(out_matrix, out_shape), NoArray)
    /\ UNCHANGED <<args, backprop_mode_stack, locals, kernel_calls, bb, grads, prev>>

-----------------------------------------------------------------------------
(* The gradient closures of Dot, lines 87-91 and 94-98, run by the backward *)
(* pass of the graph engine once Dot has returned.                          *)

\* An Array is a handle on shared storage: the builder keeps the handles it
\* was constructed with, each named here by the local that holds it.
ArrayOf(handle) ==
    CASE handle = "a_matrix" -> a_matrix
      [] handle = "b_matrix" -> b_matrix
      [] handle = "out_matrix" -> out_matrix
      [] handle = "a" -> a
      [] handle = "w" -> w
      [] handle = "v" -> v

\* bctx.GetRetainedInput(tok) / GetRetainedOutput(tok): a token redeems the
\* value it was retained for, and nothing redeems without one.
GetRetainedInput(tok) ==
    IF tok \in bb.retained THEN ArrayOf(bb.inputs[tok[3] + 1]) ELSE NoArray
GetRetainedOutput(tok) ==
    IF tok \in bb.retained THEN ArrayOf(bb.outputs[tok[3] + 1]) ELSE NoArray

\* DotGradA with b_matrix not transposed.
DotGradANoTranspose(gout) ==
    DotCall(gout, GetRetainedInput(<<0, "input", 1>>), a.dtype).value

\* Lines 88-90: Dot(gout, b_matrix.Transpose(), a_dtype).
DotGradA(gout) ==
    DotCall(gout, TransposeAll(GetRetainedInput(<<0, "input", 1>>)), a.dtype).value

\* Lines 95-97: Dot(a_matrix.Transpose(), gout, b_dtype).
DotGradB(gout) ==
    DotCall(TransposeAll(GetRetainedInput(<<1, "input", 0>>)), gout, b.dtype).value

\* The output gradients the engine hands to the closures of "dot".
DotOutputGrads ==
    {Full(out_matrix.shape, out_matrix.dtype, 1),
     Arange(1, out_matrix.shape, out_matrix.dtype)}

\* The engine starts the backward pass of the "dot" node.
DotBeginBackward ==
    /\ pc = "done"
    /\ op = "Dot"
    /\ bb.finalized = 1
    /\ bb.defined # {}
    /\ \E gout \in DotOutputGrads : output_grad' = <<gout>>
    /\ pc' = "backward"
    /\ UNCHANGED <<args, backprop_mode_stack, locals, kernel_calls, bb, result,
                   input_grad, dereferenced, prev>>

\* Lines 87-91: the closure of target 0.
DotBackward0 ==
    /\ pc = "backward"
    /\ op = "Dot"
    /\ 0 \in bb.defined
    /\ input_grad[0] = NoArray
    /\ input_grad' = [input_grad EXCEPT ![0] = DotGradA(output_grad[1])]
    /\ dereferenced' = dereferenced \cup {0}
    /\ UNCHANGED <<pc, args, backprop_mode_stack, locals, kernel_calls, bb, result,
                   output_grad, prev>>

\* Lines 94-98: the closure of target 1.
DotBackward1 ==
    /\ pc = "backward"
    /\ op = "Dot"
    /\ 1 \in bb.defined
    /\ input_grad[1] = NoArray
    /\ input_grad' = [input_grad EXCEPT ![1] = DotGradB(output_grad[1])]
    /\ dereferenced' = dereferenced \cup {0}
    /\ UNCHANGED <<pc, args, backprop_mode_stack, locals, kernel_calls, bb, result,
                   output_grad, prev>>

-----------------------------------------------------------------------------
(* The routines the Eigh closure calls, on matrices and vectors.            *)

HasValue(g) == g # NoArray

At(x, i, j) == x.data[(i - 1) * x.shape[2] + j]

\* The rows x cols matrix whose entry (i, j) is elem[i, j].
Matrix(rows, cols, dtype, elem) ==
    [shape |-> <<rows, cols>>,
     dtype |-> dtype,
     data  |-> [p \in 1..(rows * cols) |->
                   elem[((p - 1) \div cols) + 1, ((p - 1) % cols) + 1]]]

\* ExpandDims(x, axis) of a vector: axis 0 gives a row, axis 1 a column.
ExpandDims(x, axis) ==
    Reshape(x, IF axis = 0 THEN <<1, x.shape[1]>> ELSE <<x.shape[1], 1>>)

BroadcastDim(p, q) == IF p = 1 THEN q ELSE p
BroadcastAt(x, i, j) ==
    At(x, IF x.shape[1] = 1 THEN 1 ELSE i, IF x.shape[2] = 1 THEN 1 ELSE j)

\* operator-(x, y) on matrices, extents of 1 broadcast.
Subtract(x, y) ==
    LET rows == BroadcastDim(x.shape[1], y.shape[1])
        cols == BroadcastDim(x.shape[2], y.shape[2])
        E == [i \in 1..rows, j \in 1..cols |->
              BroadcastAt(x, i, j) - BroadcastAt(y, i, j)]
    IN  Matrix(rows, cols, ResultType(x, y), E)

\* operator+(x, y) on matrices of one shape.
Add(x, y) ==
    LET E == [i \in 1..x.shape[1], j \in 1..x.shape[2] |->
              At(x, i, j) + At(y, i, j)]
    IN  Matrix(x.shape[1], x.shape[2], ResultType(x, y), E)

\* Eye(n, m, 0, Dtype::kBool).
Eye(n, m) ==
    LET E == [i \in 1..n, j \in 1..m |-> i = j]
    IN  Matrix(n, m, "bool", E)

\* The value the macro INFINITY stands for in an array.
INFINITY == 1000000

\* Where(mask, scalar, x).
Where(mask, scalar, x) ==
    LET E == [i \in 1..x.shape[1], j \in 1..x.shape[2] |->
              IF At(mask, i, j) THEN scalar ELSE At(x, i, j)]
    IN  Matrix(x.shape[1], x.shape[2], x.dtype, E)

\* Reciprocal(x): 1/x elementwise, 1/INFINITY being 0.  Integers hold 1/e
\* exactly for e = 1 and e = -1, the only finite entries the model feeds it.
Reciprocal(x) ==
    LET E == [i \in 1..x.shape[1], j \in 1..x.shape[2] |->
              IF At(x, i, j) = INFINITY THEN 0 ELSE 1 \div At(x, i, j)]
    IN  Matrix(x.shape[1], x.shape[2], x.dtype, E)

\* Diag(x) of a vector: the matrix with x on its diagonal.
Diag(x) ==
    LET E == [i \in 1..x.shape[1], j \in 1..x.shape[1] |->
              IF i = j THEN x.data[i] ELSE 0]
    IN  Matrix(x.shape[1], x.shape[1], x.dtype, E)

\* SyevdKernel(a, uplo, compute_v): the eigenvalues, ascending, of the
\* symmetric matrix whose uplo triangle is a's, and its eigenvectors as
\* columns when compute_v.  Defined here for the inputs of the model, which
\* are diagonal with distinct entries, so that both triangles give the same
\* matrix: the eigenvalues are the diagonal sorted and the eigenvectors the
\* unit vectors in that order.  Without compute_v the second array holds
\* nothing readable.
SyevdKernel(x, ul, compute_v) ==
    LET n == x.shape[1]
        rank(i) == Cardinality({j \in 1..n : At(x, j, j) < At(x, i, i)})
        at(r) == CHOOSE i \in 1..n : rank(i) = r - 1
        V == [i \in 1..n, r \in 1..n |->
              IF rank(i) = r - 1 THEN 1 ELSE 0]
    IN  <<[shape |-> <<n>>, dtype |-> x.dtype,
           data |-> [r \in 1..n |-> At(x, at(r), at(r))]],
          IF compute_v THEN Matrix(n, n, x.dtype, V) ELSE Empty(<<n, n>>, x.dtype)>>

-----------------------------------------------------------------------------
(* Eigh, lines 106-154, and Eigvalsh, lines 156-173.                        *)

\* Lines 107-112 and 157-162: the input is rank 2 and square.
EighValid(x) == Ndim(x) = 2 /\ x.shape[1] = x.shape[2]

Uplos == {"L", "U"}

\* An input of Eigh/Eigvalsh.  A square one is diagonal, with 1..n on its
\* diagonal, ascending or descending; any other holds 1, 2, ...
EigInput(shape, descending, dtype) ==
    IF Len(shape) = 2 /\ shape[1] = shape[2]
    THEN LET n == shape[1]
             E == [i \in 1..n, j \in 1..n |->
                   IF i # j THEN 0 ELSE IF descending THEN n + 1 - i ELSE i]
         IN  Matrix(n, n, dtype, E)
    ELSE Arange(1, shape, dtype)

\* A caller that kept the eigenvalues of the previous call makes this call
\* to compare: the other entry point, on the same input.
ComparesWithPrev(name, x, ul) ==
    prev # NoPrev => (prev.op # name /\ prev.a = x /\ prev.uplo = ul)

CallEig(name) ==
    /\ pc = "idle"
    /\ prev.op # name
    /\ \E shape \in ShapesUpTo(MaxRankB), descending \in BOOLEAN,
          ul \in Uplos, dtype \in Dtypes, st \in EntryStacks :
          /\ ComparesWithPrev(name, EigInput(shape, descending, dtype), ul)
          /\ a' = EigInput(shape, descending, dtype)
          /\ uplo' = ul
          /\ backprop_mode_stack' = st
          /\ entry_stack' = st
    /\ op' = name
    /\ pc' = name
    /\ UNCHANGED <<b, out_dtype, locals, kernel_calls, bb, result, grads, prev>>

\* A caller invokes Eigh(a, uplo).
CallEigh == CallEig("Eigh")

\* A caller invokes Eigvalsh(a, uplo).
CallEigvalsh == CallEig("Eigvalsh")

\* Lines 107-112: Eigh rejects the input.
EighInvalid ==
    /\ pc = "Eigh"
    /\ ~EighValid(a)
    /\ Finish("DimensionError", NoArray, NoArray)
    /\ UNCHANGED <<args, backprop_mode_stack, locals, kernel_calls, bb, grads, prev>>

\* Lines 107-118: Eigh accepts the input and enters the scope.
EighScopeEnter ==
    /\ pc = "Eigh"
    /\ EighValid(a)
    /\ backprop_mode_stack' = ScopeEnter
    /\ pc' = "Eigh_kernel"
    /\ UNCHANGED <<args, locals, kernel_calls, bb, result, grads, prev>>

\* Line 119: std::tie(w, v) = CallKernel<SyevdKernel>(a, uplo, true).
EighCallKernel ==
    /\ pc = "Eigh_kernel"
    /\ kernel_calls' = KernelCalled("SyevdKernel")
    /\ w' = SyevdKernel(a, uplo, TRUE)[1]
    /\ v' = SyevdKernel(a, uplo, TRUE)[2]
    /\ pc' = "Eigh_scope_end"
    /\ UNCHANGED <<args, backprop_mode_stack, out_shape, a_matrix, b_matrix,
                   out_matrix, bb, result, grads, prev>>

\* Line 119: the kernel throws.
EighKernelThrows ==
    /\ pc = "Eigh_kernel"
    /\ kernel_calls' = KernelCalled("SyevdKernel")
    /\ pc' = "Eigh_unwind"
    /\ UNCHANGED <<args, backprop_mode_stack, locals, bb, result, grads, prev>>

\* Line 120 during unwinding.
EighUnwind ==
    /\ pc = "Eigh_unwind"
    /\ backprop_mode_stack' = ScopeExit
    /\ Finish("KernelError", NoArray, NoArray)
    /\ UNCHANGED <<args, locals, kernel_calls, bb, grads, prev>>

\* Line 120: the scope ends.
EighScopeExit ==
    /\ pc = "Eigh_scope_end"
    /\ backprop_mode_stack' = ScopeExit
    /\ pc' = "Eigh_bb"
    /\ UNCHANGED <<args, locals, kernel_calls, bb, result, grads, prev>>

\* Line 125: BackwardBuilder bb{"eigh", a, {w, v}}.
EighBuilder ==
    /\ pc = "Eigh_bb"
    /\ bb' = [NoBuilder EXCEPT !.name = "eigh", !.created = 1,
                               !.inputs = <<"a">>, !.outputs = <<"w", "v">>]
    /\ pc' = "Eigh_target0"
    /\ UNCHANGED <<args, backprop_mode_stack, locals, kernel_calls, result, grads, prev>>

\* Lines 126-149: the target of input 0; its closure retains a, w and v.
EighTarget0 ==
    /\ pc = "Eigh_target0"
    /\ \E nonempty \in CreateTarget :
          bb' = DefineTarget(0, nonempty,
                             {<<0, "input", 0>>, <<0, "output", 0>>, <<0, "output", 1>>})
    /\ pc' = "Eigh_finalize"
    /\ UNCHANGED <<args, backprop_mode_stack, locals, kernel_calls, result, grads, prev>>

\* Line 150: bb.Finalize().
EighFinalize ==
    /\ pc = "Eigh_finalize"
    /\ bb' = [bb EXCEPT !.finalized = @ + 1]
    /\ pc' = "Eigh_return"
    /\ UNCHANGED <<args, backprop_mode_stack, locals, kernel_calls, result, grads, prev>>

\* Line 153: return std::make_tuple(std::move(w), std::move(v)).
EighReturn ==
    /\ pc = "Eigh_return"
    /\ Finish("ok", w, v)
    /\ UNCHANGED <<args, backprop_mode_stack, locals, kernel_calls, bb, grads, prev>>

\* Lines 157-162: Eigvalsh rejects the input.
EigvalshInvalid ==
    /\ pc = "Eigvalsh"
    /\ ~EighValid(a)
    /\ Finish("DimensionError", NoArray, NoArray)
    /\ UNCHANGED <<args, backprop_mode_stack, locals, kernel_calls, bb, grads, prev>>

\* Lines 157-168: Eigvalsh accepts the input and enters the scope.
EigvalshScopeEnter ==
    /\ pc = "Eigvalsh"
    /\ EighValid(a)
    /\ backprop_mode_stack' = ScopeEnter
    /\ pc' = "Eigvalsh_kernel"
    /\ UNCHANGED <<args, locals, kernel_calls, bb, result, grads, prev>>

\* Line 169: std::tie(w, v) = CallKernel<SyevdKernel>(a, uplo, false).
EigvalshCallKernel ==
    /\ pc = "Eigvalsh_kernel"
    /\ kernel_calls' = KernelCalled("SyevdKernel")
    /\ w' = SyevdKernel(a, uplo, FALSE)[1]
    /\ v' = SyevdKernel(a, uplo, FALSE)[2]
    /\ pc' = "Eigvalsh_scope_end"
    /\ UNCHANGED <<args, backprop_mode_stack, out_shape, a_matrix, b_matrix,
                   out_matrix, bb, result, grads, prev>>

\* Line 169: the kernel throws.
EigvalshKernelThrows ==
    /\ pc = "Eigvalsh_kernel"
    /\ kernel_calls' = KernelCalled("SyevdKernel")
    /\ pc' = "Eigvalsh_unwind"
    /\ UNCHANGED <<args, backprop_mode_stack, locals, bb, result, grads, prev>>

\* Line 170 during unwinding.
EigvalshUnwind ==
    /\ pc = "Eigvalsh_unwind"
    /\ backprop_mode_stack' = ScopeExit
    /\ Finish("KernelError", NoArray, NoArray)
    /\ UNCHANGED <<args, locals, kernel_calls, bb, grads, prev>>

\* Line 170: the scope ends.
EigvalshScopeExit ==
    /\ pc = "Eigvalsh_scope_end"
    /\ backprop_mode_stack' = ScopeExit
    /\ pc' = "Eigvalsh_return"
    /\ UNCHANGED <<args, locals, kernel_calls, bb, result, grads, prev>>

\* EigvalshReturn returning the other array the kernel gave.
EigvalshReturnsV ==
    /\ pc = "Eigvalsh_return"
    /\ Finish("ok", v, NoArray)
    /\ UNCHANGED <<args, backprop_mode_stack, locals, kernel_calls, bb, grads, prev>>

\* Line 172: return w.
EigvalshReturn ==
    /\ pc = "Eigvalsh_return"
    /\ Finish("ok", w, NoArray)
    /\ UNCHANGED <<args, backprop_mode_stack, locals, kernel_calls, bb, grads, prev>>

-----------------------------------------------------------------------------
(* The gradient closure of Eigh, lines 127-148.                             *)

\* EighGw standing a missing gradient in by ones.
EighGwOnes(og) ==
    IF HasValue(og[1]) THEN og[1]
    ELSE Full(GetRetainedOutput(<<0, "output", 0>>).shape,
              GetRetainedInput(<<0, "input", 0>>).dtype, 1)

\* Line 135: gw.
EighGw(og) ==
    IF HasValue(og[1]) THEN og[1]
    ELSE Zeros(GetRetainedOutput(<<0, "output", 0>>).shape,
               GetRetainedInput(<<0, "input", 0>>).dtype)

\* Line 136: gv.
EighGv(og) ==
    IF HasValue(og[2]) THEN og[2]
    ELSE Zeros(GetRetainedOutput(<<0, "output", 1>>).shape,
               GetRetainedInput(<<0, "input", 0>>).dtype)

\* Lines 135-136: the output gradients the closure dereferences.
EighDereferenced(og) == {i \in {0, 1} : HasValue(og[i + 1])}

\* Lines 140-145: F.
EighF(w_) ==
    LET F == Subtract(ExpandDims(w_, 0), ExpandDims(w_, 1))
        mask == Eye(F.shape[1], F.shape[2])
    IN  Reciprocal(Where(mask, INFINITY, F))

\* Lines 131-147: the gradient the closure stores in bctx.input_grad().
EighGradA(og) ==
    LET w_ == GetRetainedOutput(<<0, "output", 0>>)
        v_ == GetRetainedOutput(<<0, "output", 1>>)
        vt == TransposeAll(v_)
        inner == Add(Multiply(EighF(w_), DotCall(vt, EighGv(og), NoDtype).value),
                     Diag(EighGw(og)))
    IN  DotCall(DotCall(v_, inner, NoDtype).value, vt, NoDtype).value

\* Whether Reciprocal is exact on F: every two eigenvalues differ by 1.
UnitGaps(w_) ==
    \A i, j \in 1..w_.shape[1] : i # j => (w_.data[i] - w_.data[j]) \in {-1, 1}

\* The gradients the engine may hand over for an output: none, or an array
\* of the output's shape.
OptionalGrads(out) ==
    {NoArray, Zeros(out.shape, out.dtype), Arange(1, out.shape, out.dtype)}

\* The engine starts the backward pass of the "eigh" node.
EighBeginBackward ==
    /\ pc = "done"
    /\ op = "Eigh"
    /\ bb.finalized = 1
    /\ bb.defined # {}
    /\ UnitGaps(w)
    /\ \E gw \in OptionalGrads(w), gv \in OptionalGrads(v) :
          output_grad' = <<gw, gv>>
    /\ pc' = "backward"
    /\ UNCHANGED <<args, backprop_mode_stack, locals, kernel_calls, bb, result,
                   input_grad, dereferenced, prev>>

\* Lines 127-148: the closure of target 0.
EighBackward0 ==
    /\ pc = "backward"
    /\ op = "Eigh"
    /\ 0 \in bb.defined
    /\ input_grad[0] = NoArray
    /\ input_grad' = [input_grad EXCEPT ![0] = EighGradA(output_grad)]
    /\ dereferenced' = dereferenced \cup EighDereferenced(output_grad)
    /\ UNCHANGED <<pc, args, backprop_mode_stack, locals, kernel_calls, bb, result,
                   output_grad, prev>>

-----------------------------------------------------------------------------
(* Between calls.                                                           *)

\* What a finished call leaves for the next: only an eigenvalue call that
\* returned is remembered.
Remembered ==
    IF op \in {"Eigh", "Eigvalsh"} /\ result.status = "ok"
    THEN [op |-> op, a |-> a, uplo |-> uplo, w |-> result.value]
    ELSE NoPrev

\* The caller drops the results of the finished call and the graph it built.
Release ==
    /\ pc \in {"done", "backward"}
    /\ pc' = "idle"
    /\ op' = "none"
    /\ a' = NoArray
    /\ b' = NoArray
    /\ out_dtype' = NoDtype
    /\ uplo' = "none"
    /\ backprop_mode_stack' = <<>>
    /\ entry_stack' = <<>>
    /\ out_shape' = <<>>
    /\ a_matrix' = NoArray
    /\ b_matrix' = NoArray
    /\ out_matrix' = NoArray
    /\ w' = NoArray
    /\ v' = NoArray
    /\ kernel_calls' = <<>>
    /\ bb' = NoBuilder
    /\ result' = NoResult
    /\ output_grad' = <<>>
    /\ input_grad' = NoGrads
    /\ dereferenced' = {}
    /\ \E keep \in BOOLEAN : prev' = IF keep THEN Remembered ELSE NoPrev

NextDot ==
    \/ CallDot
    \/ DotScalar
    \/ DotMismatch
    \/ DotZero
    \/ DotReduce
    \/ DotScopeEnter
    \/ DotCallKernel
    \/ DotKernelThrows
    \/ DotUnwind
    \/ DotScopeExit
    \/ DotBuilder
    \/ DotTarget0
    \/ DotTarget1
    \/ DotFinalize
    \/ DotReturn
    \/ DotBeginBackward
    \/ DotBackward0
    \/ DotBackward1

NextEigh ==
    \/ CallEigh
    \/ EighInvalid
    \/ EighScopeEnter
    \/ EighCallKernel
    \/ EighKernelThrows
    \/ EighUnwind
    \/ EighScopeExit
    \/ EighBuilder
    \/ EighTarget0
    \/ EighFinalize
    \/ EighReturn
    \/ EighBeginBackward
    \/ EighBackward0

NextEigvalsh ==
    \/ CallEigvalsh
    \/ EigvalshInvalid
    \/ EigvalshScopeEnter
    \/ EigvalshCallKernel
    \/ EigvalshKernelThrows
    \/ EigvalshUnwind
    \/ EigvalshScopeExit
    \/ EigvalshReturn

Next == NextDot \/ NextEigh \/ NextEigvalsh \/ Release

Spec == Init /\ [][Next]_vars

-----------------------------------------------------------------------------
(* The properties.                                                          *)

Returned == pc \in {"done", "backward"}
EigOps == {"Eigh", "Eigvalsh"}

RemoveAt(s, i) == SubSeq(s, 1, i - 1) \o SubSeq(s, i + 1, Len(s))

\* The extent of b's contracted axis: the first for rank(b) <= 2, the
\* second-to-last above.
ContractedB(y) == IF Ndim(y) <= 2 THEN y.shape[1] ELSE y.shape[Ndim(y) - 1]

BothRanked == op = "Dot" /\ Ndim(a) >= 1 /\ Ndim(b) >= 1

ExpectedDotShape ==
    Front(a.shape) \o
        (IF Ndim(b) <= 2 THEN Tail(b.shape) ELSE RemoveAt(b.shape, Ndim(b) - 1))

ExpectedDotDtype == IF out_dtype # NoDtype THEN out_dtype ELSE ResultType(a, b)

\* C1: a Dot call with both operands of rank >= 1 and equal contracted
\* extents returns (unless the kernel itself fails) an array whose shape is
\* a.shape without its last axis followed by b.shape without its first axis
\* (rank(b) <= 2) or without its second-to-last axis (rank(b) > 2).
C1_DotOutputShape ==
    (Returned /\ BothRanked /\ a.shape[Ndim(a)] = ContractedB(b)) =>
        /\ result.status \in {"ok", "KernelError"}
        /\ result.status = "ok" => result.value.shape = ExpectedDotShape

C1_Witness ==
    /\ pc = "done"
    /\ op = "Dot"
    /\ a.shape = <<2, 1>>
    /\ b.shape = <<2, 1, 2>>
    /\ result.status = "ok"
    /\ result.value.shape = <<2, 2, 2>>

InvalidDot == BothRanked /\ a.shape[Ndim(a)] # ContractedB(b)
InvalidEig == op \in EigOps /\ ~(Ndim(a) = 2 /\ a.shape[1] = a.shape[2])

\* C2: an invalid call (Dot with differing contracted extents, Eigh or
\* Eigvalsh on an input that is not rank 2 or not square) never gets past
\* validation: it ends in DimensionError with no kernel called and no
\* BackwardBuilder created.
C2_InvalidCallFailsFirst ==
    (InvalidDot \/ InvalidEig) =>
        /\ pc \in {op, "done"}
        /\ kernel_calls = <<>>
        /\ bb.created = 0
        /\ pc = "done" => result.status = "DimensionError"

C2_Witness ==
    /\ pc = "done"
    /\ op = "Dot"
    /\ a.shape = <<2, 2>>
    /\ b.shape = <<2, 1, 2>>
    /\ result.status = "DimensionError"
    /\ kernel_calls = <<>>

ZeroContraction == BothRanked /\ a.shape[Ndim(a)] = 0 /\ ContractedB(b) = 0

\* C3: a Dot call with both operands of rank >= 1 whose contracted extents
\* are both zero returns the all-zero array of the computed output shape and
\* the result dtype, calls no kernel and creates no BackwardBuilder.
C3_ZeroContraction ==
    ZeroContraction =>
        /\ pc \in {"Dot", "done"}
        /\ kernel_calls = <<>>
        /\ bb.created = 0
        /\ pc = "done" =>
              /\ result.status = "ok"
              /\ result.value = Zeros(ExpectedDotShape, ExpectedDotDtype)

C3_Witness ==
    /\ pc = "done"
    /\ op = "Dot"
    /\ a.shape = <<2, 0>>
    /\ b.shape = <<1, 0, 2>>
    /\ out_dtype = "float64"
    /\ result.value = [shape |-> <<2, 1, 2>>, dtype |-> "float64", data |-> <<0, 0, 0, 0>>]

ScalarOperand == op = "Dot" /\ 0 \in {Ndim(a), Ndim(b)}

\* C4: a Dot call with an operand of rank 0 returns the elementwise product
\* a * b straight away: no DimensionError, no kernel call, no BackwardBuilder.
C4_ScalarIsMultiply ==
    ScalarOperand =>
        /\ pc \in {"Dot", "done"}
        /\ kernel_calls = <<>>
        /\ bb.created = 0
        /\ pc = "done" =>
              /\ result.status = "ok"
              /\ result.value = Multiply(a, b)

C4_Witness ==
    /\ pc = "done"
    /\ op = "Dot"
    /\ a.shape = <<>>
    /\ b.shape = <<2, 0, 2>>
    /\ result.status = "ok"
    /\ result.value.shape = <<2, 0, 2>>

\* C5: every kernel call runs with backprop off; whenever an entry point has
\* exited, by return or by a failure of the kernel, the backprop mode stack is
\* what it was at the call; and a BackwardBuilder exists only once the scope
\* has been left.
C5_KernelUnderNoBackprop ==
    /\ \A i \in 1..Len(kernel_calls) : ~kernel_calls[i].recording
    /\ Returned => backprop_mode_stack = entry_stack
    /\ bb.created = 1 => backprop_mode_stack = entry_stack

C5_Witness ==
    /\ pc = "done"
    /\ result.status = "KernelError"
    /\ entry_stack = <<>>
    /\ backprop_mode_stack = <<>>
    /\ kernel_calls = <<[kernel |-> "SyevdKernel", recording |-> FALSE]>>

RECURSIVE SumSeq(_)
SumSeq(s) == IF s = <<>> THEN 0 ELSE Head(s) + SumSeq(Tail(s))

\* The matrix product x . transpose(y), entry by entry.
TimesTransposed(x, y) ==
    LET E == [i \in 1..x.shape[1], j \in 1..y.shape[1] |->
              SumSeq([l \in 1..x.shape[2] |-> At(x, i, l) * At(y, j, l)])]
    IN  Matrix(x.shape[1], y.shape[1], x.dtype, E)

\* The matrix product transpose(x) . y, entry by entry.
TransposedTimes(x, y) ==
    LET E == [i \in 1..x.shape[2], j \in 1..y.shape[2] |->
              SumSeq([l \in 1..x.shape[1] |-> At(x, l, i) * At(y, l, j)])]
    IN  Matrix(x.shape[2], y.shape[2], x.dtype, E)

Scenario ==
    /\ a_matrix.shape = <<2, 2>> /\ a_matrix.data = <<1, 2, 3, 4>>
    /\ b_matrix.shape = <<2, 2>> /\ b_matrix.data = <<5, 6, 7, 8>>
    /\ output_grad[1].data = <<1, 1, 1, 1>>

\* C6: in the backward pass of "dot" with a_matrix (m x k), b_matrix (k x n)
\* and output gradient g_out (m x n), the closure of target 0 yields
\* g_out . transpose(b_matrix), of shape m x k and a's dtype, and the closure
\* of target 1 yields transpose(a_matrix) . g_out, of shape k x n and b's
\* dtype; for A=[[1,2],[3,4]], B=[[5,6],[7,8]], g_out all ones they are
\* [[11,15],[11,15]] and [[4,4],[6,6]].
C6_DotGradients ==
    (pc = "backward" /\ op = "Dot") =>
        /\ 0 \in dereferenced /\ 0 \in bb.defined /\ input_grad[0] # NoArray =>
              /\ input_grad[0].shape = <<a_matrix.shape[1], a_matrix.shape[2]>>
              /\ input_grad[0].dtype = a.dtype
              /\ input_grad[0].data = TimesTransposed(output_grad[1], b_matrix).data
              /\ Scenario => input_grad[0].data = <<11, 15, 11, 15>>
        /\ 0 \in dereferenced /\ 1 \in bb.defined /\ input_grad[1] # NoArray =>
              /\ input_grad[1].shape = <<b_matrix.shape[1], b_matrix.shape[2]>>
              /\ input_grad[1].dtype = b.dtype
              /\ input_grad[1].data = TransposedTimes(a_matrix, output_grad[1]).data
              /\ Scenario => input_grad[1].data = <<4, 4, 6, 6>>

C6_Witness ==
    /\ pc = "backward"
    /\ op = "Dot"
    /\ Scenario
    /\ a.dtype = "float32"
    /\ b.dtype = "float64"
    /\ result.value.data = <<19, 22, 43, 50>>
    /\ input_grad[0] = [shape |-> <<2, 2>>, dtype |-> "float32", data |-> <<11, 15, 11, 15>>]
    /\ input_grad[1] = [shape |-> <<2, 2>>, dtype |-> "float64", data |-> <<4, 4, 6, 6>>]

SameEigCallAsPrev ==
    /\ Returned
    /\ op \in EigOps
    /\ result.status = "ok"
    /\ prev.op \in EigOps
    /\ prev.op # op
    /\ prev.a = a
    /\ prev.uplo = uplo

EigvalshNeverBuilds == op = "Eigvalsh" => bb = NoBuilder

EighReturned == Returned /\ op = "Eigh" /\ result.status = "ok"

\* C7 as stated: Eigvalsh(a, uplo) returns the eigenvalues Eigh(a, uplo)
\* returns first and creates no BackwardBuilder, and every Eigh that returns
\* has registered one rule with one target, for input 0.
C7_EighAlwaysOneTarget ==
    /\ SameEigCallAsPrev => result.value = prev.w
    /\ EigvalshNeverBuilds
    /\ EighReturned =>
          /\ bb.created = 1
          /\ bb.name = "eigh"
          /\ bb.finalized = 1
          /\ bb.defined = {0}

\* C7 amended: Eigvalsh(a, uplo) returns the eigenvalues Eigh(a, uplo)
\* returns first and creates no BackwardBuilder; every Eigh that returns has
\* created one BackwardBuilder, asked it for the target of input 0 only and
\* finalized it, and has defined that one target when input 0 is
\* differentiable and none when it is not, as it never is with backprop off.
C7_EigvalshMatchesEigh ==
    /\ SameEigCallAsPrev => result.value = prev.w
    /\ EigvalshNeverBuilds
    /\ EighReturned =>
          /\ bb.created = 1
          /\ bb.name = "eigh"
          /\ bb.finalized = 1
          /\ bb.requested = <<0>>
          /\ bb.defined \subseteq {0}
          /\ entry_stack # <<>> => bb.defined = {}

C7_Witness ==
    /\ pc = "done"
    /\ op = "Eigvalsh"
    /\ result.status = "ok"
    /\ prev.op = "Eigh"
    /\ prev.a = a
    /\ prev.uplo = uplo
    /\ uplo = "U"
    /\ a.data = <<2, 0, 0, 1>>
    /\ result.value.data = <<1, 2>>

\* An output gradient as given, or the zero array that stands for a missing one.
Explicit(g, out) == IF HasValue(g) THEN g ELSE Zeros(out.shape, a.dtype)

\* C8: the gradient the Eigh closure computes from output gradients of which
\* some are missing is the one it computes when each missing one is given as
\* the zero array of w's (v's) shape and a's dtype, and the closure
\* dereferences only the output gradients that are present.
C8_AbsentGradientIsZero ==
    (pc = "backward" /\ op = "Eigh" /\ input_grad[0] # NoArray) =>
        /\ input_grad[0] =
              EighGradA(<<Explicit(output_grad[1], w), Explicit(output_grad[2], v)>>)
        /\ \A i \in dereferenced : HasValue(output_grad[i + 1])

C8_Witness ==
    /\ pc = "backward"
    /\ op = "Eigh"
    /\ w.data = <<1, 2>>
    /\ output_grad[1] = NoArray
    /\ output_grad[2].data = <<1, 2, 3, 4>>
    /\ input_grad[0] # NoArray
    /\ input_grad[0].data # <<0, 0, 0, 0>>
    /\ dereferenced = {1}

RetainedBy(t) == {tok \in bb.retained : tok[1] = t}

\* C9: in Dot the closure of target 0 retains input 1 only and the closure of
\* target 1 retains input 0 only; nothing is retained for a target that was
\* not defined, so nothing at all when no input is differentiable; and
\* Finalize is called exactly once, after both targets have been asked for.
C9_DotRetainsTheOtherOperand ==
    op = "Dot" =>
        /\ \A tok \in bb.retained : tok[1] \in bb.defined
        /\ 0 \in bb.defined => RetainedBy(0) = {<<0, "input", 1>>}
        /\ 1 \in bb.defined => RetainedBy(1) = {<<1, "input", 0>>}
        /\ bb.defined = {} => bb.retained = {}
        /\ bb.finalized \in {0, 1}
        /\ bb.finalized = 1 => bb.requested = <<0, 1>>
        /\ Returned /\ bb.created = 1 => bb.finalized = 1

C9_Witness ==
    /\ pc = "done"
    /\ op = "Dot"
    /\ entry_stack = <<>>
    /\ bb.requested = <<0, 1>>
    /\ bb.defined = {1}
    /\ bb.retained = {<<1, "input", 0>>}
    /\ bb.finalized = 1

\* C10: a Dot call given an out_dtype that returns, returns an array of that
\* dtype, on the rank-0 path, the zero-contraction path and the kernel path.
C10_OutDtypeOnEveryPath ==
    (Returned /\ op = "Dot" /\ result.status = "ok" /\ out_dtype # NoDtype) =>
        result.value.dtype = out_dtype

====
